---- MODULE Spec2Model ----
(***************************************************************************)
(* A model of the repository state engine of simple_vcs                    *)
(* (src/simple_vcs/core.py, class SimpleVCS).                              *)
(*                                                                         *)
(* The state is the part of the filesystem the engine reads and writes:    *)
(* the metadata directory .svcs (objects/, commits.json, staging.json,     *)
(* HEAD), the working tree below the repository root, and the archive a    *)
(* snapshot writes into the root.  One action models one public method as  *)
(* a whole; the working tree also changes by the user's own edits.         *)
(*                                                                         *)
(* Paths are sequences of path components.  File contents are sequences    *)
(* of blocks, each block standing for CompressThreshold bytes.             *)
(***************************************************************************)
EXTENDS Integers, Sequences, FiniteSets, TLC

VARIABLES
    svcs_dir,   \* TRUE iff the directory repo_path/.svcs exists
    objects,    \* .svcs/objects: digest -> bytes of the blob file of that name
    commits,    \* .svcs/commits.json: the sequence of commit records
    staging,    \* .svcs/staging.json: relative path -> staging entry
    head,       \* .svcs/HEAD: the integer its text holds
    tree,       \* working tree: relative path -> bytes, for every regular file
    snapshot,   \* the archive file repo_path/SnapName.zip
    snap_tree,  \* history: the working tree when that archive was written
    result,     \* the last call: operation, arguments, return value, message
    ncommits,   \* history: number of calls of commit that returned True
    ncalls      \* history: number of operations and edits so far

vars == <<svcs_dir, objects, commits, staging, head, tree, snapshot, snap_tree, result,
         ncommits, ncalls>>

meta == <<svcs_dir, objects, commits, staging, head>>

----------------------------------------------------------------------------
(* Bounds and input sets *)

MaxCalls == 6

None == -1

EmptyMap == [x \in {} |-> 0]

repo_path == <<"repo">>

\* The file .svcs/commits.json, relative to the root.
commits_file == <<".svcs", "commits.json">>

\* The relative paths of the model in the order of sorted() on their strings:
\* ".svcs/commits.json" < "a.txt" < "d/.svcs/c.txt" < "d/b.txt".
PathOrder == <<commits_file, <<"a.txt">>, <<"d", ".svcs", "c.txt">>, <<"d", "b.txt">>>>

\* The paths of the working files the user writes and deletes.
TreePaths == {PathOrder[i] : i \in 2..Len(PathOrder)}

Contents == {<<0>>, <<1>>, <<0, 1>>}

\* What the user writes: any content to a.txt, one content to the other files.
WriteInputs ==
    {<<p, bytes>> \in TreePaths \X Contents : p = <<"a.txt">> \/ bytes = <<0>>}

Times == {1}

Messages == {"", "m"}

SnapName == "s"

SnapPath == repo_path \o <<SnapName \o ".zip">>

\* Regular files outside the repository root.
Outside == (<<"out", "x.txt">> :> <<0>>)

CompressThreshold == 1024

CommitIds == 0..3

\* The arguments of show_diff: each omitted, 0, an id of the ledger or not.
DiffInputs == ({None, 0, 1, 3} \X {None, 0, 2})

\* The arguments of add_file: working files, a directory, a file outside, and
\* the ledger file of the metadata directory.
AddInputs ==
    {repo_path \o p : p \in TreePaths} \cup {repo_path \o <<"d">>} \cup DOMAIN Outside
        \cup {repo_path \o commits_file}

----------------------------------------------------------------------------
(* Pure helpers *)

IsPrefix(s, t) == Len(s) <= Len(t) /\ SubSeq(t, 1, Len(s)) = s

Put(f, k, v) == [x \in DOMAIN f \cup {k} |-> IF x = k THEN v ELSE f[x]]

Restrict(f, S) == [x \in S |-> f[x]]

\* sorted(S) for a set of relative paths: PathOrder is their lexical order.
sorted(S) == SelectSeq(PathOrder, LAMBDA p : p \in S)

st_size(bytes) == Len(bytes) * CompressThreshold

\* hashlib.sha256(bytes).hexdigest(): a function of the bytes alone, injective
\* (collision-free) on the contents of the model.
RECURSIVE hexdigest(_)
hexdigest(bytes) ==
    IF bytes = <<>> THEN 1
    ELSE 3 * hexdigest(SubSeq(bytes, 1, Len(bytes) - 1)) + bytes[Len(bytes)] + 1

\* The digest of the bytes of a working file: a pair that no ledger digest
\* equals.
sha256_bytes(bytes) == <<0, hexdigest(bytes)>>

\* The digest of the bytes of .svcs/commits.json, which are json.dumps of the
\* ledger: one digest for each ledger, and never that of a working file.
sha256_json(ledger) == <<1, ledger>>

\* The length of json.dumps(ledger, indent=2): "[]" for the empty ledger, and
\* about 300 bytes a record.
json_size(ledger) == 2 + 300 * Len(ledger)

\* Archives that are not written by create_snapshot, kept outside the root: one
\* of working files only, and one that carries entries below .svcs/ (a HEAD, a
\* ledger of one record and a staging file that name a digest without a blob).
CraftedEntry == [hash |-> sha256_bytes(<<1>>), size |-> st_size(<<1>>), modified |-> 1]

OutsideArchives ==
    (<<"out", "plain.zip">> :>
        [files |-> (<<"a.txt">> :> <<1>>),
         meta |-> [svcs |-> FALSE, head |-> 0, commits |-> <<>>,
                   staging |-> EmptyMap]])
    @@
    (<<"out", "crafted.zip">> :>
        [files |-> EmptyMap,
         meta |-> [svcs |-> TRUE, head |-> 3,
                   commits |-> <<[id |-> 3, message |-> "m", timestamp |-> 1,
                                  files |-> (<<"a.txt">> :> CraftedEntry),
                                  parent |-> None]>>,
                   staging |-> (<<"a.txt">> :> CraftedEntry)]])

RestoreInputs == {SnapPath, <<"out", "none.zip">>} \cup DOMAIN OutsideArchives

gzip_compress(bytes) == <<31, 139>> \o bytes

\* gzip_decompress that reads the .gz file with open() in place of
\* gzip.open(): the compressed bytes come back as they are.
read_without_gunzip(bytes) == bytes

gzip_decompress(bytes) == SubSeq(bytes, 3, Len(bytes))

\* Path.relative_to(repo_path): the components below the root; <<>> stands for
\* the ValueError of a path that is not below it.
relative_to(file_path) ==
    IF IsPrefix(repo_path, file_path) /\ Len(file_path) > Len(repo_path)
    THEN SubSeq(file_path, Len(repo_path) + 1, Len(file_path))
    ELSE <<>>

InRepo(file_path) == relative_to(file_path) # <<>>

is_file(file_path) ==
    \/ InRepo(file_path) /\ relative_to(file_path) \in DOMAIN tree
    \/ relative_to(file_path) = commits_file /\ svcs_dir
    \/ file_path \in DOMAIN Outside

is_dir(file_path) ==
    /\ InRepo(file_path)
    /\ \E p \in DOMAIN tree :
          IsPrefix(relative_to(file_path), p) /\ p # relative_to(file_path)

exists(file_path) == is_file(file_path) \/ is_dir(file_path)

\* The content of a file: blocks of bytes, or for .svcs/commits.json the
\* ledger its text holds.
read_bytes(file_path) ==
    IF relative_to(file_path) = commits_file THEN commits
    ELSE IF InRepo(file_path) THEN tree[relative_to(file_path)]
    ELSE Outside[file_path]

\* file_path.stat().st_size
stat_size(file_path) ==
    IF relative_to(file_path) = commits_file THEN json_size(commits)
    ELSE st_size(read_bytes(file_path))

_check_repo == svcs_dir

_calculate_file_hash(file_path) ==
    IF relative_to(file_path) = commits_file THEN sha256_json(commits)
    ELSE sha256_bytes(read_bytes(file_path))

\* _store_object without the exists() test: the blob is written every time.
_store_object_always(obj_hash, content) ==
    [objects |-> Put(objects, obj_hash, content), wrote |-> TRUE]

\* _store_object(obj_hash, content): the object store afterwards, and whether
\* write_bytes was called.
_store_object(obj_hash, content) ==
    IF obj_hash \notin DOMAIN objects
    THEN [objects |-> Put(objects, obj_hash, content), wrote |-> TRUE]
    ELSE [objects |-> objects, wrote |-> FALSE]

_get_current_commit_id == IF head > 0 THEN head ELSE None

\* _get_commit_by_id(commit_id): the position in the ledger of the first record
\* with that id, 0 for None.
_get_commit_by_id(commit_id) ==
    IF \E i \in 1..Len(commits) : commits[i].id = commit_id
    THEN CHOOSE i \in 1..Len(commits) :
            /\ commits[i].id = commit_id
            /\ \A j \in 1..(i - 1) : commits[j].id # commit_id
    ELSE 0

NoOut == [added |-> <<>>, deleted |-> <<>>, modified |-> <<>>]

\* The figures compress_objects prints (objects compressed, original size,
\* new size); None where it prints none.
NoReport == [processed |-> None, original_size |-> None, new_size |-> None]

Ret(op, ok, err, path, id, wrote, out) ==
    result' = [op |-> op, ok |-> ok, err |-> err, path |-> path, id |-> id,
               ids |-> <<None, None>>, wrote |-> wrote, out |-> out,
               report |-> NoReport]

Fail(op, err, path, id) ==
    /\ Ret(op, FALSE, err, path, id, FALSE, NoOut)
    /\ UNCHANGED <<meta, tree, snapshot, snap_tree, ncommits>>

----------------------------------------------------------------------------
Init ==
    /\ svcs_dir = FALSE
    /\ objects = EmptyMap
    /\ commits = <<>>
    /\ staging = EmptyMap
    /\ head = 0
    /\ tree = EmptyMap
    /\ snapshot = [exists |-> FALSE, files |-> EmptyMap]
    /\ snap_tree = EmptyMap
    /\ result = [op |-> "new", ok |-> TRUE, err |-> "", path |-> <<>>, id |-> None,
                 ids |-> <<None, None>>, wrote |-> FALSE, out |-> NoOut,
                 report |-> NoReport]
    /\ ncommits = 0
    /\ ncalls = 0

----------------------------------------------------------------------------
(* The user's own edits of the working tree: the engine does not own it *)

WriteFile(p, bytes) ==
    /\ tree' = Put(tree, p, bytes)
    /\ Ret("edit", TRUE, "", repo_path \o p, None, FALSE, NoOut)
    /\ UNCHANGED <<meta, snapshot, snap_tree, ncommits>>

DeleteFile(p) ==
    /\ p \in DOMAIN tree
    /\ tree' = Restrict(tree, DOMAIN tree \ {p})
    /\ Ret("edit", TRUE, "", repo_path \o p, None, FALSE, NoOut)
    /\ UNCHANGED <<meta, snapshot, snap_tree, ncommits>>

----------------------------------------------------------------------------
(* The operations of SimpleVCS *)

\* init_repo without the test of svcs_dir.exists(), the directories made with
\* exist_ok: the three files are written anew over the ones that are there.
init_repo_again ==
    /\ svcs_dir' = TRUE
    /\ objects' = objects
    /\ commits' = <<>>
    /\ staging' = EmptyMap
    /\ head' = 0
    /\ Ret("init", TRUE, "", <<>>, None, FALSE, NoOut)
    /\ UNCHANGED <<tree, snapshot, snap_tree, ncommits>>

init_repo ==
    IF svcs_dir
    THEN Fail("init", "AlreadyExists", <<>>, None)
    ELSE /\ svcs_dir' = TRUE
         /\ objects' = EmptyMap
         /\ commits' = <<>>
         /\ staging' = EmptyMap
         /\ head' = 0
         /\ Ret("init", TRUE, "", <<>>, None, FALSE, NoOut)
         /\ UNCHANGED <<tree, snapshot, snap_tree, ncommits>>

\* add_error without the relative_to test: a file outside the root passes.
add_error_no_containment(file_path) ==
    IF ~exists(file_path) THEN "NotFound"
    ELSE IF ~is_file(file_path) THEN "NotAFile"
    ELSE ""

\* The checks of add_file before anything is stored: "" when all pass.
add_error(file_path) ==
    IF ~exists(file_path) THEN "NotFound"
    ELSE IF ~is_file(file_path) THEN "NotAFile"
    ELSE IF ~InRepo(file_path) THEN "OutsideRepository"
    ELSE ""

staging_entry(file_path, mtime) ==
    [hash |-> _calculate_file_hash(file_path),
     size |-> stat_size(file_path),
     modified |-> mtime]

\* stage without reading the staging file first: the new entry is written alone.
stage_alone(file_path, mtime) ==
    (relative_to(file_path) :> staging_entry(file_path, mtime))

\* staging[str(relative_path)] = {...}
stage(file_path, mtime) ==
    Put(staging, relative_to(file_path), staging_entry(file_path, mtime))

add_file(file_path) ==
    IF ~_check_repo THEN Fail("add", "NotARepo", file_path, None)
    ELSE IF add_error(file_path) # "" THEN Fail("add", add_error(file_path), file_path, None)
    ELSE \E mtime \in Times :
         LET st == _store_object(_calculate_file_hash(file_path), read_bytes(file_path))
         IN  /\ objects' = st.objects
             /\ staging' = stage(file_path, mtime)
             /\ Ret("add", TRUE, "", file_path, None, st.wrote, NoOut)
             /\ UNCHANGED <<svcs_dir, commits, head, tree, snapshot, snap_tree, ncommits>>

\* nothing_staged without the emptiness test.
never_nothing_staged == FALSE

\* if not staging
nothing_staged == DOMAIN staging = {}

new_commit(message, now) ==
    [id |-> Len(commits) + 1,
     message |-> IF message # "" THEN message ELSE "Commit at " \o ToString(now),
     timestamp |-> now,
     files |-> staging,
     parent |-> _get_current_commit_id]

\* staging_after_commit without the write of {}: the staging file is kept.
staging_not_cleared == staging

\* self._write_json(self.staging_file, {})
staging_after_commit == EmptyMap

commit(message) ==
    IF ~_check_repo THEN Fail("commit", "NotARepo", <<>>, None)
    ELSE IF nothing_staged THEN Fail("commit", "NothingStaged", <<>>, None)
    ELSE \E now \in Times :
         LET c == new_commit(message, now)
         IN  /\ commits' = Append(commits, c)
             /\ head' = c.id
             /\ staging' = staging_after_commit
             /\ ncommits' = ncommits + 1
             /\ Ret("commit", TRUE, "", <<>>, c.id, FALSE, NoOut)
             /\ UNCHANGED <<svcs_dir, objects, tree, snapshot, snap_tree>>

\* The positions in the ledger of the two commits show_diff compares; 0 for a
\* commit that _get_commit_by_id does not find.  None and 0 are falsy.
diff_first(commit_id1, commit_id2) ==
    IF commit_id1 = None /\ commit_id2 = None
    THEN Len(commits) - 1
    ELSE _get_commit_by_id(IF commit_id1 \in {None, 0} THEN Len(commits) - 1
                           ELSE commit_id1)

diff_second(commit_id1, commit_id2) ==
    IF commit_id1 = None /\ commit_id2 = None
    THEN Len(commits)
    ELSE _get_commit_by_id(IF commit_id2 \in {None, 0} THEN Len(commits)
                           ELSE commit_id2)

\* diff_table that compares the sizes of a common path, not its digests.
diff_table_by_size(files1, files2) ==
    [added    |-> sorted(DOMAIN files2 \ DOMAIN files1),
     deleted  |-> sorted(DOMAIN files1 \ DOMAIN files2),
     modified |-> sorted({f \in DOMAIN files1 \cap DOMAIN files2 :
                             files1[f].size # files2[f].size})]

\* The rows of the table show_diff prints for two file maps.
diff_table(files1, files2) ==
    [added    |-> sorted(DOMAIN files2 \ DOMAIN files1),
     deleted  |-> sorted(DOMAIN files1 \ DOMAIN files2),
     modified |-> sorted({f \in DOMAIN files1 \cap DOMAIN files2 :
                             files1[f].hash # files2[f].hash})]

\* The result of show_diff, which records both arguments (ids).
diff_result(commit_id1, commit_id2, ok, err, out) ==
    result' = [op |-> "diff", ok |-> ok, err |-> err, path |-> <<>>, id |-> None,
               ids |-> <<commit_id1, commit_id2>>, wrote |-> FALSE, out |-> out,
               report |-> NoReport]

show_diff(commit_id1, commit_id2) ==
    /\ UNCHANGED <<meta, tree, snapshot, snap_tree, ncommits>>
    /\ IF ~_check_repo
       THEN diff_result(commit_id1, commit_id2, FALSE, "NotARepo", NoOut)
       ELSE IF Len(commits) = 0
       THEN diff_result(commit_id1, commit_id2, FALSE, "NoCommits", NoOut)
       ELSE IF commit_id1 = None /\ commit_id2 = None /\ Len(commits) < 2
       THEN diff_result(commit_id1, commit_id2, FALSE, "InsufficientHistory", NoOut)
       ELSE LET i1 == diff_first(commit_id1, commit_id2)
                i2 == diff_second(commit_id1, commit_id2)
            IN  IF i1 = 0 \/ i2 = 0
                THEN diff_result(commit_id1, commit_id2, FALSE, "InvalidCommit", NoOut)
                ELSE diff_result(commit_id1, commit_id2, TRUE, "",
                                 diff_table(commits[i1].files, commits[i2].files))

\* show_log reverses its own copy of the list and writes nothing.
show_log(limit) ==
    IF ~_check_repo THEN Fail("log", "NotARepo", <<>>, None)
    ELSE IF Len(commits) = 0 THEN Fail("log", "NoCommits", <<>>, None)
    ELSE /\ Ret("log", TRUE, "", <<>>, None, FALSE, NoOut)
         /\ UNCHANGED <<meta, tree, snapshot, snap_tree, ncommits>>

status ==
    IF ~_check_repo THEN Fail("status", "NotARepo", <<>>, None)
    ELSE /\ Ret("status", TRUE, "", <<>>, None, FALSE, NoOut)
         /\ UNCHANGED <<meta, tree, snapshot, snap_tree, ncommits>>

\* The paths of a file map that the loop of quick_revert copies: none when a
\* blob is missing, as if the copy of a missing blob raised.
copied_all_or_none(files) ==
    IF \A f \in DOMAIN files : files[f].hash \in DOMAIN objects THEN DOMAIN files ELSE {}

\* if obj_path.exists(): shutil.copy2(obj_path, target_path)
copied(files) == {f \in DOMAIN files : files[f].hash \in DOMAIN objects}

\* reverted_tree that keeps the copied files alone, as a replacement of the
\* whole tree would.
reverted_tree_replaced(files) ==
    [f \in copied(files) \ {commits_file} |-> objects[files[f].hash]]

\* The working tree after the loop of quick_revert over commit["files"]: a
\* path whose blob exists gets the blob's bytes, any other path is as before.
reverted_tree(files) ==
    [f \in DOMAIN tree \cup (copied(files) \ {commits_file}) |->
        IF f \in copied(files) THEN objects[files[f].hash] ELSE tree[f]]

\* The ledger after that loop: target_path is .svcs/commits.json itself for
\* such a key of the file map, and the copy overwrites the ledger.
reverted_commits(files) ==
    IF commits_file \in copied(files) THEN objects[files[commits_file].hash]
    ELSE commits

\* quick_revert with the HEAD write moved before the lookup of the commit.
quick_revert_head_first(commit_id) ==
    IF ~_check_repo THEN Fail("revert", "NotARepo", <<>>, commit_id)
    ELSE IF _get_commit_by_id(commit_id) = 0
    THEN /\ head' = commit_id
         /\ Ret("revert", FALSE, "CommitNotFound", <<>>, commit_id, FALSE, NoOut)
         /\ UNCHANGED <<svcs_dir, objects, commits, staging, tree, snapshot, snap_tree,
                         ncommits>>
    ELSE /\ tree' = reverted_tree(commits[_get_commit_by_id(commit_id)].files)
         /\ commits' = reverted_commits(commits[_get_commit_by_id(commit_id)].files)
         /\ head' = commit_id
         /\ Ret("revert", TRUE, "", <<>>, commit_id, tree' # tree, NoOut)
         /\ UNCHANGED <<svcs_dir, objects, staging, snapshot, snap_tree, ncommits>>

quick_revert(commit_id) ==
    IF ~_check_repo THEN Fail("revert", "NotARepo", <<>>, commit_id)
    ELSE IF _get_commit_by_id(commit_id) = 0
    THEN Fail("revert", "CommitNotFound", <<>>, commit_id)
    ELSE /\ tree' = reverted_tree(commits[_get_commit_by_id(commit_id)].files)
         /\ commits' = reverted_commits(commits[_get_commit_by_id(commit_id)].files)
         /\ head' = commit_id
         /\ Ret("revert", TRUE, "", <<>>, commit_id, tree' # tree, NoOut)
         /\ UNCHANGED <<svcs_dir, objects, staging, snapshot, snap_tree, ncommits>>

\* os.walk with dirs[:] = [d for d in dirs if d != '.svcs']: the files no
\* directory of whose path is named .svcs.
walked(p) == \A i \in 1..(Len(p) - 1) : p[i] # ".svcs"

archived_files ==
    Restrict(tree, {p \in DOMAIN tree : walked(p) /\ repo_path \o p # SnapPath})

\* create_snapshot that moves the files into the archive: each archived file
\* is unlinked once written to the zip.
create_snapshot_moving(name) ==
    IF ~_check_repo THEN Fail("snapshot", "NotARepo", <<>>, None)
    ELSE /\ snapshot' = [exists |-> TRUE, files |-> archived_files]
         /\ snap_tree' = tree
         /\ tree' = Restrict(tree, DOMAIN tree \ DOMAIN archived_files)
         /\ Ret("snapshot", TRUE, "", repo_path \o <<name \o ".zip">>, None, FALSE, NoOut)
         /\ UNCHANGED <<meta, ncommits>>

create_snapshot(name) ==
    IF ~_check_repo THEN Fail("snapshot", "NotARepo", <<>>, None)
    ELSE /\ snapshot' = [exists |-> TRUE, files |-> archived_files]
         /\ snap_tree' = tree
         /\ Ret("snapshot", TRUE, "", repo_path \o <<name \o ".zip">>, None, FALSE, NoOut)
         /\ UNCHANGED <<meta, tree, ncommits>>

\* The zip file at snapshot_path: entries below the root (files), and whether
\* it carries the entries .svcs/HEAD, .svcs/commits.json, .svcs/staging.json
\* and the directory .svcs/objects/ (svcs), with what they hold.
NoMeta == [svcs |-> FALSE, head |-> 0, commits |-> <<>>, staging |-> EmptyMap]

ZipFile(snapshot_path) ==
    IF snapshot_path = SnapPath
    THEN [exists |-> snapshot.exists, files |-> snapshot.files, meta |-> NoMeta]
    ELSE IF snapshot_path \in DOMAIN OutsideArchives
    THEN [exists |-> TRUE, files |-> OutsideArchives[snapshot_path].files,
          meta |-> OutsideArchives[snapshot_path].meta]
    ELSE [exists |-> FALSE, files |-> EmptyMap, meta |-> NoMeta]

\* restored_tree without the loop that clears the root: the archive's entries
\* are extracted over the files that are there.
restored_tree_not_cleared(zipf) ==
    [f \in DOMAIN tree \cup DOMAIN zipf.files |->
        IF f \in DOMAIN zipf.files THEN zipf.files[f] ELSE tree[f]]

\* The working tree after the root is cleared and the archive extracted.
restored_tree(zipf) == zipf.files

\* restore_from_snapshot does not call _check_repo.  Every item of the root
\* but .svcs is deleted (the archive in the root with them: the open zip is
\* still read after its unlink, as on POSIX), then extractall writes every
\* entry of the archive below the root, the entries below .svcs included.
restore_from_snapshot(snapshot_path) ==
    LET zipf == ZipFile(snapshot_path)
    IN  IF ~zipf.exists THEN Fail("restore", "ArchiveNotFound", snapshot_path, None)
        ELSE /\ tree' = restored_tree(zipf)
             /\ snapshot' = [exists |-> FALSE, files |-> EmptyMap]
             /\ snap_tree' = IF snapshot_path = SnapPath THEN snap_tree ELSE EmptyMap
             /\ IF zipf.meta.svcs
                THEN /\ svcs_dir' = TRUE
                     /\ head' = zipf.meta.head
                     /\ commits' = zipf.meta.commits
                     /\ staging' = zipf.meta.staging
                     /\ objects' = objects
                ELSE UNCHANGED meta
             /\ Ret("restore", TRUE, "", snapshot_path, None, FALSE, NoOut)
             /\ UNCHANGED ncommits

\* recompressed without the second half of the pass: the blob stays gzipped.
left_compressed(bytes) == gzip_compress(bytes)

\* One pass of the loop of compress_objects over an object file: gzip to
\* <name>.gz, unlink, gunzip back to <name>, unlink <name>.gz.
recompressed(bytes) == gzip_decompress(gzip_compress(bytes))

\* obj_file.stat().st_size of the blob named h.
blob_size(h) == IF h[1] = 1 THEN json_size(objects[h]) ELSE st_size(objects[h])

obj_files == {h \in DOMAIN objects : blob_size(h) > CompressThreshold}

\* sum(f.stat().st_size for f in self.objects_dir.glob('*')) over the store.
RECURSIVE objects_size(_)
objects_size(store) ==
    IF DOMAIN store = {} THEN 0
    ELSE LET h == CHOOSE x \in DOMAIN store : TRUE
         IN  (IF h[1] = 1 THEN json_size(store[h]) ELSE st_size(store[h]))
             + objects_size(Restrict(store, DOMAIN store \ {h}))

compress_result(processed, original_size, new_size) ==
    result' = [op |-> "compress", ok |-> TRUE, err |-> "", path |-> <<>>,
               id |-> None, ids |-> <<None, None>>, wrote |-> FALSE, out |-> NoOut,
               report |-> [processed |-> processed,
                           original_size |-> original_size,
                           new_size |-> new_size]]

\* With no object file above the threshold the call returns True before the
\* loop, with the message that there are no objects to compress and no sizes.
compress_objects ==
    IF ~_check_repo THEN Fail("compress", "NotARepo", <<>>, None)
    ELSE IF obj_files = {}
    THEN /\ compress_result(0, None, None)
         /\ UNCHANGED <<meta, tree, snapshot, snap_tree, ncommits>>
    ELSE /\ objects' = [h \in DOMAIN objects |->
                          IF h \in obj_files THEN recompressed(objects[h])
                          ELSE objects[h]]
         /\ compress_result(Cardinality(obj_files), objects_size(objects),
                            objects_size(objects'))
         /\ UNCHANGED <<svcs_dir, commits, staging, head, tree, snapshot, snap_tree,
                         ncommits>>

----------------------------------------------------------------------------
\* Every operation and edit counts as one call; MaxCalls bounds the runs.
Tick == ncalls < MaxCalls /\ ncalls' = ncalls + 1

Next ==
    \/ Tick /\ \E w \in WriteInputs : WriteFile(w[1], w[2])
    \/ Tick /\ \E p \in TreePaths : DeleteFile(p)
    \/ Tick /\ init_repo
    \/ Tick /\ \E file_path \in AddInputs : add_file(file_path)
    \/ Tick /\ \E message \in Messages : commit(message)
    \/ Tick /\ \E ids \in DiffInputs : show_diff(ids[1], ids[2])
    \/ Tick /\ \E limit \in {None, 1} : show_log(limit)
    \/ Tick /\ status
    \/ Tick /\ \E commit_id \in CommitIds : quick_revert(commit_id)
    \/ Tick /\ create_snapshot(SnapName)
    \/ Tick /\ \E snapshot_path \in RestoreInputs : restore_from_snapshot(snapshot_path)
    \/ Tick /\ compress_objects

Spec == Init /\ [][Next]_vars

----------------------------------------------------------------------------
(* Claims *)

Last(seq) == seq[Len(seq)]

StagedDigests == {staging[f].hash : f \in DOMAIN staging}

CommittedDigests ==
    UNION {{commits[i].files[f].hash : f \in DOMAIN commits[i].files} :
              i \in 1..Len(commits)}

\* C1: after N successful commits the ledger holds exactly N records with ids
\* 1..N in append order, and the record a commit appends has as parent the
\* value of HEAD immediately before that commit (None for HEAD = 0).
C1_CommitIdsDense ==
    /\ [](/\ Len(commits) = ncommits
          /\ \A i \in 1..Len(commits) : commits[i].id = i)
    /\ [][(result'.op = "commit" /\ result'.ok) =>
              Last(commits').parent = (IF head > 0 THEN head ELSE None)]_vars

\* C2: a commit called with a non-empty staging area appends exactly one
\* record whose files are the staging area as it was, leaves the earlier
\* records in place, sets HEAD to the new record's id, empties the staging
\* area and returns success.
C2_CommitEffects ==
    [][(result'.op = "commit" /\ DOMAIN staging # {}) =>
          /\ result'.ok
          /\ Len(commits') = Len(commits) + 1
          /\ SubSeq(commits', 1, Len(commits)) = commits
          /\ Last(commits').files = staging
          /\ Last(commits').id = Len(commits) + 1
          /\ head' = Last(commits').id
          /\ DOMAIN staging' = {}]_vars

C2_Witness ==
    /\ result.op = "commit" /\ result.ok
    /\ Len(commits) = 2
    /\ DOMAIN Last(commits).files # {}
    /\ head = Last(commits).id
    /\ DOMAIN staging = {}

\* C3: a commit called in a repository whose staging area is empty fails with
\* NothingStaged and leaves the ledger, the staging area, HEAD, the object
\* store and the working tree as they were.
C3_EmptyCommitFails ==
    [][(result'.op = "commit" /\ svcs_dir /\ DOMAIN staging = {}) =>
          /\ ~result'.ok
          /\ result'.err = "NothingStaged"
          /\ UNCHANGED <<commits, staging, head, objects, tree, snapshot>>]_vars

C3_Witness ==
    /\ result.op = "commit" /\ ~result.ok /\ result.err = "NothingStaged"
    /\ Len(commits) = 1
    /\ head = 1

\* C4: the ledger is append-only: in every step the ledger before is a prefix
\* of the ledger after.
C4_AppendOnly == [][IsPrefix(commits, commits')]_vars

\* C5: HEAD changes only in a successful commit, to the id of the new commit,
\* and in a successful revert, to the target id; no other operation changes
\* it, whatever its input.
C5_HeadFrame ==
    [][head' # head =>
          \/ result'.op = "commit" /\ result'.ok /\ head' = Last(commits').id
          \/ result'.op = "revert" /\ result'.ok /\ head' = result'.id]_vars

\* C6: while the metadata directory does not exist, every operation other than
\* initialization fails and changes nothing: no metadata is created and no
\* file of the working tree is created, overwritten or deleted.
C6_NoRepoNoChange ==
    [][(~svcs_dir /\ result'.op \notin {"init", "edit"}) =>
          /\ ~result'.ok
          /\ UNCHANGED <<svcs_dir, objects, commits, staging, head, tree, snapshot>>]_vars

\* C7: every digest recorded in a staging entry or in the file map of a commit
\* has a blob in the object store.
C7_ReferentialIntegrity ==
    StagedDigests \cup CommittedDigests \subseteq DOMAIN objects

\* C8: a successful add stages the digest of the file's bytes and leaves one
\* blob of those bytes under that digest; when a blob of that digest exists
\* already the object store is not written.
C8_StoreDedup ==
    [][(result'.op = "add" /\ result'.ok) =>
          LET bytes == read_bytes(result'.path)
              h == _calculate_file_hash(result'.path)
          IN  /\ staging'[relative_to(result'.path)].hash = h
              /\ DOMAIN objects' = DOMAIN objects \cup {h}
              /\ objects'[h] = bytes
              /\ \A g \in DOMAIN objects : objects'[g] = objects[g]
              /\ result'.wrote = (h \notin DOMAIN objects)]_vars

C8_Witness ==
    /\ result.op = "add" /\ result.ok /\ ~result.wrote
    /\ DOMAIN staging = {<<"a.txt">>, <<"d", "b.txt">>}
    /\ staging[<<"a.txt">>].hash = staging[<<"d", "b.txt">>].hash
    /\ DOMAIN staging \subseteq DOMAIN tree
    /\ tree[<<"a.txt">>] = tree[<<"d", "b.txt">>]
    /\ Cardinality(DOMAIN objects) = 1

\* C9: an add of a path that does not exist, is not a regular file or is not
\* below the repository root fails, and a failed add leaves the staging area,
\* the object store, the ledger and HEAD as they were.
C9_FailedAdd ==
    [][result'.op = "add" =>
          /\ (\/ ~exists(result'.path)
              \/ ~is_file(result'.path)
              \/ ~InRepo(result'.path)) => ~result'.ok
          /\ ~result'.ok => UNCHANGED <<staging, objects, commits, head, tree>>]_vars

C9_Witness ==
    /\ result.op = "add" /\ ~result.ok /\ result.err = "OutsideRepository"
    /\ svcs_dir
    /\ DOMAIN staging # {}

\* C10: a successful add sets the staging entry of the file's path relative to
\* the root to the digest and the size of the file's bytes, leaves every other
\* staging entry as it was, and adds at most one blob to the object store.
C10_AddStagesOnePath ==
    [][(result'.op = "add" /\ result'.ok) =>
          LET rel == relative_to(result'.path)
          IN  /\ repo_path \o rel = result'.path
              /\ DOMAIN staging' = DOMAIN staging \cup {rel}
              /\ staging'[rel].hash = _calculate_file_hash(result'.path)
              /\ staging'[rel].size = stat_size(result'.path)
              /\ \A f \in DOMAIN staging \ {rel} : staging'[f] = staging[f]
              /\ DOMAIN objects \subseteq DOMAIN objects'
              /\ Cardinality(DOMAIN objects' \ DOMAIN objects) <= 1]_vars

C10_Witness ==
    /\ result.op = "add" /\ result.ok
    /\ Cardinality(DOMAIN staging) = 2
    /\ \E f \in DOMAIN staging \cap DOMAIN tree :
          /\ result.path = repo_path \o f
          /\ staging[f].hash = sha256_bytes(tree[f])
          /\ \E g \in (DOMAIN staging \cap TreePaths) \ {f} :
                g \in DOMAIN tree /\ staging[g].hash # sha256_bytes(tree[g])

----------------------------------------------------------------------------
(* Claims on diff, revert, snapshot and restore *)

Range(seq) == {seq[i] : i \in 1..Len(seq)}

PathIndex(p) == CHOOSE i \in 1..Len(PathOrder) : PathOrder[i] = p

\* seq lists the paths of the set S, each once, in lexical order.
ListsInOrder(seq, S) ==
    /\ Range(seq) = S
    /\ Len(seq) = Cardinality(S)
    /\ \A i, j \in 1..Len(seq) : i < j => PathIndex(seq[i]) < PathIndex(seq[j])

\* Some record of the ledger has this id.
Named(commit_id) == \E i \in 1..Len(commits) : commits[i].id = commit_id

\* The file map of the record that get returns for an id of the ledger.
FilesOf(commit_id) == commits[_get_commit_by_id(commit_id)].files

\* out is the report of the differences from file map F1 to file map F2.
Reports(out, F1, F2) ==
    /\ ListsInOrder(out.added, DOMAIN F2 \ DOMAIN F1)
    /\ ListsInOrder(out.deleted, DOMAIN F1 \ DOMAIN F2)
    /\ ListsInOrder(out.modified,
                    {f \in DOMAIN F1 \cap DOMAIN F2 : F1[f].hash # F2[f].hash})

\* Whether the file at a relative path exists, and its content: the ledger for
\* .svcs/commits.json, the bytes of the working file for any other path.
Present(f) == IF f = commits_file THEN svcs_dir ELSE f \in DOMAIN tree

Content(f) == IF f = commits_file THEN commits ELSE tree[f]

Digest(f) == IF f = commits_file THEN sha256_json(commits) ELSE sha256_bytes(tree[f])

C12_DefaultDiff ==
    [][(result'.op = "diff" /\ result'.ids = <<None, None>> /\ svcs_dir) =>
          IF Len(commits) < 2
          THEN /\ ~result'.ok
               /\ result'.err = "InsufficientHistory"
               /\ UNCHANGED <<svcs_dir, objects, commits, staging, head, tree, snapshot>>
          ELSE /\ result'.ok
               /\ Reports(result'.out, commits[Len(commits) - 1].files,
                          commits[Len(commits)].files)
               /\ commits[Len(commits) - 1].id = Len(commits) - 1
               /\ commits[Len(commits)].id = Len(commits)]_vars

\* C13: a diff with at least one identifier supplied fails with InvalidCommit
\* whenever a supplied identifier names no commit of the ledger, 0 included;
\* only an omitted identifier is replaced by its default.
C13_SuppliedIdsResolved ==
    [][\A a, b \in CommitIds \cup {None} :
          (/\ result'.op = "diff"
           /\ result'.ids = <<a, b>>
           /\ svcs_dir /\ Len(commits) > 0
           /\ \/ a # None /\ ~Named(a)
              \/ b # None /\ ~Named(b)) =>
              /\ ~result'.ok
              /\ result'.err = "InvalidCommit"]_vars

\* C14: a revert to an id that no record of the ledger has fails with
\* CommitNotFound and leaves HEAD, the working tree, the ledger, the staging
\* area and the object store as they were.
C14_RevertUnknownId ==
    [][(result'.op = "revert" /\ svcs_dir /\ ~Named(result'.id)) =>
          /\ ~result'.ok
          /\ result'.err = "CommitNotFound"
          /\ UNCHANGED <<head, tree, commits, staging, objects, snapshot>>]_vars

C14_Witness ==
    /\ result.op = "revert" /\ ~result.ok /\ result.err = "CommitNotFound"
    /\ Len(commits) >= 1
    /\ head >= 1 /\ result.id # head
    /\ DOMAIN tree # {}

\* C15: a successful revert changes only HEAD and the working files at the
\* paths of the target commit's file map: the ledger, the staging area and the
\* object store are as before, and every working file at another path is still
\* there with its content.
C15_RevertFrame ==
    [][(result'.op = "revert" /\ result'.ok) =>
          /\ UNCHANGED <<commits, staging, objects>>
          /\ \A f \in DOMAIN tree \ DOMAIN FilesOf(result'.id) :
                f \in DOMAIN tree' /\ tree'[f] = tree[f]]_vars

\* C16: a revert to a commit whose file map names digests without a blob does
\* not abort: it succeeds and sets HEAD to the target id, every path whose blob
\* exists holds the bytes of its blob, and every path whose blob is missing is
\* as it was, absent or with its content.
C16_RevertSkipsMissing ==
    [][(result'.op = "revert" /\ svcs_dir /\ Named(result'.id)) =>
          LET files == FilesOf(result'.id)
              missing == {f \in DOMAIN files : files[f].hash \notin DOMAIN objects}
          IN  missing # {} =>
                /\ result'.ok
                /\ head' = result'.id
                /\ \A f \in DOMAIN files \ missing :
                      Present(f)' /\ Content(f)' = objects[files[f].hash]
                /\ \A f \in missing :
                      /\ Present(f)' = Present(f)
                      /\ Present(f) => Content(f)' = Content(f)]_vars

C16_Witness ==
    /\ result.op = "revert" /\ result.ok /\ result.wrote
    /\ head = result.id
    /\ Named(result.id)
    /\ \E f, g \in DOMAIN FilesOf(result.id) :
          /\ FilesOf(result.id)[f].hash \notin DOMAIN objects
          /\ f \notin DOMAIN tree
          /\ FilesOf(result.id)[g].hash \in DOMAIN objects
          /\ g \in DOMAIN tree
          /\ tree[g] = objects[FilesOf(result.id)[g].hash]

\* C17: after a successful revert, every path of the target commit's file map
\* whose blob exists holds the bytes that were added for it before that commit,
\* the bytes whose digest and size the commit records, whatever was edited,
\* deleted, committed or reverted in between.
C17_RevertRestoresAdded ==
    [][(result'.op = "revert" /\ result'.ok) =>
          LET files == FilesOf(result'.id)
          IN  \A f \in DOMAIN files :
                 files[f].hash \in DOMAIN objects =>
                    /\ Present(f)'
                    /\ Digest(f)' = files[f].hash
                    /\ f # commits_file => st_size(tree'[f]) = files[f].size]_vars

C17_Witness ==
    /\ result.op = "revert" /\ result.ok /\ result.wrote
    /\ Len(commits) = 1 /\ result.id = 1
    /\ DOMAIN commits[1].files = {<<"a.txt">>}
    /\ <<"a.txt">> \in DOMAIN tree
    /\ sha256_bytes(tree[<<"a.txt">>]) = commits[1].files[<<"a.txt">>].hash
    /\ objects[commits[1].files[<<"a.txt">>].hash] = tree[<<"a.txt">>]

\* C18: after a successful restore the working tree outside the metadata
\* directory is the archive's entries with the archive's bytes: every file
\* that was there before and is not in the archive is gone, the archive in the
\* root with them, and the metadata directory is still there.
C18_RestoreReplacesTree ==
    [][(result'.op = "restore" /\ result'.ok) =>
          LET entries == ZipFile(result'.path).files
          IN  /\ DOMAIN tree' = DOMAIN entries
              /\ \A f \in DOMAIN entries : tree'[f] = entries[f]
              /\ \A f \in DOMAIN tree \ DOMAIN entries : f \notin DOMAIN tree'
              /\ ~snapshot'.exists
              /\ svcs_dir => svcs_dir']_vars

C18_Witness ==
    /\ result.op = "restore" /\ result.ok
    /\ result.path = <<"out", "plain.zip">>
    /\ svcs_dir
    /\ tree = OutsideArchives[result.path].files
    /\ \E f \in DOMAIN staging : f \notin DOMAIN tree

\* C19: a restore leaves the object store, the staging area and the ledger as
\* they were, for every archive that exists, one that carries entries below
\* the metadata directory included.
C19_RestoreFrame ==
    [][result'.op = "restore" => UNCHANGED <<objects, staging, commits>>]_vars

\* C20: a snapshot of a working tree T, then any changes of the tree, then a
\* restore of that snapshot give a working tree whose files outside the
\* metadata directory are the files of T with the same bytes.
C20_SnapshotRoundTrip ==
    [][(result'.op = "restore" /\ result'.ok /\ result'.path = SnapPath) =>
          tree' = snap_tree]_vars

----------------------------------------------------------------------------
(* Claims on the archive, the frames, compact and the references *)

\* C21: the archive written by snapshot holds, under its path relative to the
\* root, every file of the working tree but those below the metadata
\* directory of the root and the archive itself, with its bytes, and nothing
\* else, staged or not, at any depth.
C21_SnapshotContents ==
    [][(result'.op = "snapshot" /\ result'.ok) =>
          /\ snapshot'.exists
          /\ snapshot'.files = tree]_vars

\* C22 as stated: add, snapshot, commit, diff, log, status and compact never
\* create, modify or delete a file of the working tree outside the metadata
\* directory, the archive in the root being such a file.
FrameOps == {"add", "snapshot", "commit", "diff", "log", "status", "compress"}

C22_TreeFrameAsStated ==
    [][result'.op \in FrameOps => UNCHANGED <<tree, snapshot>>]_vars

\* C22, amended: those operations leave every file of the working tree
\* outside the metadata directory as it is, but for the archive <name>.zip
\* that a successful snapshot creates or overwrites in the root.
C22_TreeFrame ==
    [][result'.op \in FrameOps =>
          /\ tree' = tree
          /\ snapshot' # snapshot => (result'.op = "snapshot" /\ result'.ok)]_vars

C22_Witness ==
    /\ result.op = "snapshot" /\ result.ok
    /\ snapshot.exists
    /\ DOMAIN staging # {}
    /\ Len(commits) > 0
    /\ DOMAIN tree # {}

C24_StagingLifecycle ==
    [][staging' # staging =>
          \/ /\ result'.op = "add" /\ result'.ok
             /\ \E f \in DOMAIN staging' :
                   /\ DOMAIN staging' = DOMAIN staging \cup {f}
                   /\ \A g \in DOMAIN staging \ {f} : staging'[g] = staging[g]
          \/ /\ result'.op = "commit" /\ result'.ok
             /\ DOMAIN staging' = {}]_vars

\* C25: init on a path with no metadata directory gives an empty ledger, an
\* empty staging area, an empty object store and HEAD = 0; init on a path that
\* is a repository already fails and leaves the ledger, the staging area, HEAD
\* and the object store as they are.
C25_Init ==
    [][result'.op = "init" =>
          IF svcs_dir
          THEN /\ ~result'.ok
               /\ UNCHANGED <<svcs_dir, commits, staging, head, objects>>
          ELSE /\ result'.ok
               /\ svcs_dir'
               /\ commits' = <<>>
               /\ DOMAIN staging' = {}
               /\ DOMAIN objects' = {}
               /\ head' = 0]_vars

C25_Witness ==
    /\ result.op = "init" /\ ~result.ok
    /\ Len(commits) > 0
    /\ head > 0
    /\ DOMAIN staging # {}
    /\ DOMAIN objects # {}

\* C26: in every reachable state HEAD is 0 or the id of a commit of the
\* ledger (so the current commit is None exactly when HEAD is 0), and the
\* parent of every commit is absent or the id of a commit of the ledger that
\* is strictly smaller than the commit's own id.
C26_ReferencesResolve ==
    /\ head = 0 \/ \E i \in 1..Len(commits) : commits[i].id = head
    /\ (_get_commit_by_id(_get_current_commit_id) = 0) <=> (head = 0)
    /\ \A i \in 1..Len(commits) :
          \/ commits[i].parent = None
          \/ /\ \E j \in 1..Len(commits) : commits[j].id = commits[i].parent
             /\ commits[i].parent < commits[i].id

\* C27: an archive written by snapshot into the root survives a restore from
\* it: after the restore the archive file still exists, so a second restore
\* from the same path succeeds and does not fail with ArchiveNotFound.
C27_ArchiveSurvivesRestore ==
    [][/\ (result'.op = "restore" /\ result'.ok /\ result'.path = SnapPath) =>
             snapshot'.exists
       /\ (/\ result.op = "restore" /\ result.ok /\ result.path = SnapPath
           /\ result'.op = "restore" /\ result'.path = SnapPath) =>
             (result'.ok /\ result'.err # "ArchiveNotFound")]_vars

====
